---- MODULE Spec2Model ----
(***************************************************************************)
(* Rank shop bot (discord_rank_shop_bot.py): the in-memory ledger `data`,  *)
(* its persistence in data.json through save_data/load_data, and the       *)
(* handlers of the slash commands, the shop view, the modals and the       *)
(* approval view.  Handlers are asyncio coroutines on one event loop: the  *)
(* code between two suspending awaits runs without interleaving, and a     *)
(* handler that is suspended in an await can be overtaken by any other.    *)
(* save_data never suspends (the lock is free whenever it is requested and *)
(* the file calls are synchronous), so while a flush is in progress only   *)
(* the flushing handler, or a crash of the process, takes a step.          *)
(***************************************************************************)
EXTENDS Bags, FiniteSets, Integers, Sequences, TLC

\* ------------------------------------------------------------------ bounds
MaxTasks == 2
MaxOrders == 2
\* orders while handlers run concurrently (Spec)
ConcOrders == 1
MaxProducts == 2
MaxLogs == 1
MaxUnits == 2
MaxDebt == 1
\* live workers that `tasks` no longer names, and /stop requests in their wait
MaxStrays == 5
MaxStops == 2

\* --------------------------------------------------------------- constants
ALLOWED_USER_ID == "1"
Users == {"1", "2"}
\* the users whose balance the admin commands are given as target
Targets == {ALLOWED_USER_ID}
price == 50
Amounts == {0 - price, 0, price}
Prices == {price}
ProductNames == {"vip"}
\* names that differ in case only (SpecCatalog)
SeqNames == {"vip", "VIP"}
RankName == "shadow"
MaxBalance == MaxUnits * price

PENDING == "Pending"
APPROVED == "Approved"
DENIED == "Denied"

DATA_FILE == "data.json"
\* the snapshot written straight into data.json
TmpPath_inplace == DATA_FILE
TmpPath == "data.tmp"
Paths == {DATA_FILE, TmpPath}

\* ------------------------------------------------------------ input colours
HexDigits ==
    {"0", "1", "2", "3", "4", "5", "6", "7", "8", "9",
     "a", "b", "c", "d", "e", "f", "A", "B", "C", "D", "E", "F"}

ColorInputs ==
    { <<"f", "f", "6", "6", "c", "c">>,
      <<"#", "f", "f", "6", "6", "c", "c">>,
      <<"f", "f", "6">> }

\* colour inputs of SpecOrders: two colours, each with and without "#", and
\* strings of a wrong length, with a character that is no hex digit, or
\* with a "#" that is not a single leading one
SeqColors ==
    ColorInputs \cup
    { <<"0", "9", "A", "F", "a", "f">>,
      <<"#", "0", "9", "A", "F", "a", "f">>,
      <<>>,
      <<"#">>,
      <<"f", "f", "6", "6", "c">>,
      <<"#", "f", "f", "6", "6", "c">>,
      <<"f", "f", "6", "6", "c", "c", "c">>,
      <<"#", "f", "f", "6", "6", "c", "c", "c">>,
      <<"#", "#", "f", "f", "6", "6", "c">>,
      <<"#", "#", "f", "f", "6", "6", "c", "c">>,
      <<"f", "f", "6", "6", "c", "#">>,
      <<"g", "f", "6", "6", "c", "c">>,
      <<"#", "f", "f", "6", "6", "c", "G">>,
      <<"f", "f", " ", "6", "c", "c">> }

\* the pattern without its {6}: any number of hex digits
HEX_RE_anylen(s) ==
    LET body == IF Len(s) > 0 /\ s[1] = "#" THEN Tail(s) ELSE s
    IN  \A i \in 1..Len(body) : body[i] \in HexDigits

\* HEX_RE.fullmatch(s): an optional "#", then exactly six hex digits.
HEX_RE(s) ==
    LET body == IF Len(s) > 0 /\ s[1] = "#" THEN Tail(s) ELSE s
    IN  /\ Len(body) = 6
        /\ \A i \in 1..Len(body) : body[i] \in HexDigits

\* the "#" is put in front of every value
NormColor_always(s) == <<"#">> \o s

\* the colour stored in the order: the value itself when it starts with "#"
NormColor(s) == IF Len(s) > 0 /\ s[1] = "#" THEN s ELSE <<"#">> \o s

\* -------------------------------------------------------------- the ledger
EmptyData == [products |-> <<>>, orders |-> <<>>, users |-> <<>>, topup_logs |-> <<>>]

\* data["users"].get(uid, {}).get("balance", 0)
Balance(d, uid) == IF uid \in DOMAIN d.users THEN d.users[uid].balance ELSE 0

\* users.setdefault(uid, {"balance": 0})
SetDefault(users, uid) ==
    IF uid \in DOMAIN users THEN users ELSE users @@ (uid :> [balance |-> 0])

\* users.setdefault(uid, {"balance": 0})["balance"] += amount
Credit(users, uid, amount) ==
    [SetDefault(users, uid) EXCEPT ![uid].balance = @ + amount]

InRange(b) == b >= 0 - MaxDebt * price /\ b <= MaxBalance

is_admin(user) == user = ALLOWED_USER_ID

\* ------------------------------------------------------------- persistence
NoFile == [kind |-> "missing"]
Truncated == [kind |-> "truncated"]
Text(doc) == [kind |-> "json", doc |-> doc]

\* the document is written without the members of the users object
JsonDumps_nousers(d) ==
    [products |-> d.products,
     orders |-> d.orders,
     users |-> {},
     topup_logs |-> d.topup_logs]

\* json.dumps(data): the users dict becomes a JSON object, a set of members
JsonDumps(d) ==
    [products |-> d.products,
     orders |-> d.orders,
     users |-> {[key |-> u, value |-> d.users[u]] : u \in DOMAIN d.users},
     topup_logs |-> d.topup_logs]

\* a file whose bytes are no UTF-8 text
Undecodable == [kind |-> "undecodable"]

\* json.loads(text): the value the document denotes, whatever it is; a users
\* object becomes a dict again
JsonLoads(doc) ==
    IF "users" \in DOMAIN doc
    THEN [doc EXCEPT !.users = [u \in {m.key : m \in doc.users} |->
                                  (CHOOSE m \in doc.users : m.key = u).value]]
    ELSE doc

\* the name `data` before the module has bound it
Unbound == [unbound |-> TRUE]

\* read_text raises UnicodeDecodeError, which load_data does not catch
Raised == [raised |-> "UnicodeDecodeError"]

\* load_data(): the parsed file, whatever value it holds, or a fresh
\* structure when the file is missing or json.loads raises JSONDecodeError
LoadData(files) ==
    IF files[DATA_FILE].kind = "json" THEN JsonLoads(files[DATA_FILE].doc)
    ELSE IF files[DATA_FILE].kind = "undecodable" THEN Raised
    ELSE EmptyData

\* tmp.replace(DATA_FILE): an atomic rename of the temporary file
Replace(files, src, dst) ==
    [p \in Paths |-> IF p = dst THEN files[src]
                     ELSE IF p = src THEN NoFile
                     ELSE files[p]]

\* ------------------------------------------------------------------- tasks
\* A handler between two steps: kind names the handler, pc the await it is
\* suspended in (or the step of save_data it is at), next the await that
\* follows the flush, saved whether its own flush has completed, ok whether
\* the reply it sends is the success confirmation, err the error it answers
\* with otherwise.
Task(kind, pc, next, oid, uid, ok) ==
    [kind |-> kind, pc |-> pc, next |-> next, oid |-> oid, uid |-> uid,
     ok |-> ok, saved |-> FALSE, err |-> ""]

NoTask == Task("none", "none", "none", 0, "", FALSE)

\* ------------------------------------------------------------ group finder
\* range(5) of start_finder and the permits of the semaphore
PoolSize == 5
RATE_LIMIT == 5

\* the finder at import: running = False, tasks = [], no request in progress.
\* tasks and strays are bags of the awaits the live workers are suspended
\* in: tasks for the workers in the list `tasks`, strays for the workers of
\* a list that `tasks` no longer names.
FinderInit ==
    [running |-> FALSE, tasks |-> EmptyBag, strays |-> EmptyBag,
     stopping |-> 0, reply |-> ""]

VARIABLES
    data,        \* the global ledger `data`
    fs,          \* the files data.json and data.tmp
    file_lock,   \* asyncio.Lock of save_data: TRUE while held
    tasks,       \* bag of the handlers suspended in an await
    run,         \* the handler inside save_data, or NoTask
    views,       \* order ids whose ApprovalView was sent to the admin channel
    roles,       \* order ids for which approve has created the role
    members,     \* order ids whose role was added to the buyer
    ranks,       \* product ranks added to the buyer by a purchase
    placed,      \* per order: the buyer's balance before the order was placed
    finder       \* the group finder of src/test.py: its globals and its workers

vars == <<data, fs, file_lock, tasks, run, views, roles, members, ranks, placed, finder>>

shop == <<data, fs, file_lock, tasks, run, views, roles, members, ranks, placed>>

NumTasks == BagCardinality(tasks) + (IF run = NoTask THEN 0 ELSE 1)

\* the event loop is free and one more handler fits the model's bound
Idle == run = NoTask /\ NumTasks < MaxTasks

Suspended(pc) == {t \in BagToSet(tasks) : t.pc = pc}

Init ==
    /\ data = EmptyData
    /\ fs = [p \in Paths |-> NoFile]
    /\ file_lock = FALSE
    /\ tasks = EmptyBag
    /\ run = NoTask
    /\ views = {}
    /\ roles = {}
    /\ members = {}
    /\ ranks = {}
    /\ placed = <<>>
    /\ finder = FinderInit

\* ------------------------------------------------------------ bookkeeping
\* placed[i]: the buyer's balance before order i was placed.  It is kept
\* (clean) up to and including the step that takes the order out of Pending,
\* as long as no other step has changed the buyer's balance.
Track ==
    placed' =
        [i \in DOMAIN data'.orders |->
            LET o == data'.orders[i]
            IN  IF i \notin DOMAIN data.orders
                THEN [clean |-> TRUE, bal |-> Balance(data, o.user_id)]
                ELSE IF /\ placed[i].clean
                        /\ data.orders[i].status = PENDING
                        /\ \/ o.status # PENDING
                           \/ Balance(data', o.user_id) = Balance(data, o.user_id)
                     THEN placed[i]
                     ELSE [clean |-> FALSE, bal |-> 0]]

Spawn(t) == tasks' = tasks (+) SetToBag({t})

\* the task goes on to its next await; a task that only has its reply left
\* to send holds no order or user any more
Resume(t, pc) ==
    LET u == IF pc = "reply" THEN [t EXCEPT !.pc = pc, !.oid = 0, !.uid = ""]
             ELSE [t EXCEPT !.pc = pc]
    IN  tasks' = (tasks (-) SetToBag({t})) (+) SetToBag({u})

\* the handler answers with an error message and returns: it is suspended
\* in send_message and has nothing else left to do
ReplyFail(kind, err) ==
    /\ Spawn([Task(kind, "reply", "none", 0, "", FALSE) EXCEPT !.err = err])
    /\ UNCHANGED <<fs, file_lock, run, views, roles, members, ranks>>

\* await save_data(): the lock is free, so the handler enters the flush
\* without suspending
Save(t) ==
    /\ file_lock = FALSE
    /\ file_lock' = TRUE
    /\ run' = [t EXCEPT !.pc = "save_write"]

\* ------------------------------------------------------------- save_data
\* tmp.write_text(json.dumps(data))
SaveWrite ==
    /\ run # NoTask
    /\ run.pc = "save_write"
    /\ fs' = [fs EXCEPT ![TmpPath] = Text(JsonDumps(data))]
    /\ run' = [run EXCEPT !.pc = "save_replace"]
    /\ UNCHANGED <<data, file_lock, tasks, views, roles, members, ranks>>
    /\ Track
    /\ UNCHANGED finder

\* the flush ends without the rename
SaveReplace_norename ==
    /\ run # NoTask
    /\ run.pc = "save_replace"
    /\ file_lock' = FALSE
    /\ run' = NoTask
    /\ Resume([run EXCEPT !.saved = TRUE], run.next)
    /\ UNCHANGED <<data, fs, views, roles, members, ranks>>
    /\ Track
    /\ UNCHANGED finder

\* tmp.replace(DATA_FILE), the lock is released and the handler goes on to
\* its next await
SaveReplace ==
    /\ run # NoTask
    /\ run.pc = "save_replace"
    /\ fs' = Replace(fs, TmpPath, DATA_FILE)
    /\ file_lock' = FALSE
    /\ run' = NoTask
    /\ Resume([run EXCEPT !.saved = TRUE], run.next)
    /\ UNCHANGED <<data, views, roles, members, ranks>>
    /\ Track
    /\ UNCHANGED finder

\* ---------------------------------------------------------- slash commands
\* the product is appended without the look-up of its name
add_product_nolookup(caller, name, cost) ==
    /\ Idle
    /\ IF ~is_admin(caller)
       THEN /\ ReplyFail("add_product", "forbidden")
            /\ UNCHANGED data
       ELSE /\ Len(data.products) < MaxProducts
            /\ data' = [data EXCEPT !.products =
                           Append(@, [name |-> name, rank |-> name, price |-> cost])]
            /\ Save(Task("add_product", "", "reply", 0, caller, TRUE))
            /\ UNCHANGED <<fs, tasks, views, roles, members, ranks>>
    /\ Track
    /\ UNCHANGED finder

add_product(caller, name, cost) ==
    /\ Idle
    /\ IF ~is_admin(caller) \/ (\E i \in DOMAIN data.products : data.products[i].name = name)
       THEN /\ ReplyFail("add_product", IF is_admin(caller) THEN "duplicate" ELSE "forbidden")
            /\ UNCHANGED data
       ELSE /\ Len(data.products) < MaxProducts
            /\ data' = [data EXCEPT !.products =
                           Append(@, [name |-> name, rank |-> name, price |-> cost])]
            /\ Save(Task("add_product", "", "reply", 0, caller, TRUE))
            /\ UNCHANGED <<fs, tasks, views, roles, members, ranks>>
    /\ Track
    /\ UNCHANGED finder

remove_product(caller, name) ==
    /\ Idle
    /\ IF ~is_admin(caller)
       THEN /\ ReplyFail("remove_product", "forbidden")
            /\ UNCHANGED data
       ELSE LET kept == SelectSeq(data.products, LAMBDA p : p.name # name)
            IN  /\ data' = [data EXCEPT !.products = kept]
                /\ Save([Task("remove_product", "", "reply", 0, caller,
                              Len(kept) # Len(data.products))
                            EXCEPT !.err = IF Len(kept) = Len(data.products)
                                           THEN "notfound" ELSE ""])
                /\ UNCHANGED <<fs, tasks, views, roles, members, ranks>>
    /\ Track
    /\ UNCHANGED finder

\* the confirmation is sent without awaiting save_data
add_balance_replyFirst(caller, user, amount) ==
    /\ Idle
    /\ is_admin(caller)
    /\ InRange(Balance(data, user) + amount)
    /\ data' = [data EXCEPT !.users = Credit(@, user, amount)]
    /\ Spawn(Task("add_balance", "reply", "none", 0, "", TRUE))
    /\ UNCHANGED <<fs, file_lock, run, views, roles, members, ranks>>
    /\ Track
    /\ UNCHANGED finder

add_balance(caller, user, amount) ==
    /\ Idle
    /\ IF ~is_admin(caller)
       THEN /\ ReplyFail("add_balance", "forbidden")
            /\ UNCHANGED data
       ELSE /\ InRange(Balance(data, user) + amount)
            /\ data' = [data EXCEPT !.users = Credit(@, user, amount)]
            /\ Save(Task("add_balance", "", "reply", 0, user, TRUE))
            /\ UNCHANGED <<fs, tasks, views, roles, members, ranks>>
    /\ Track
    /\ UNCHANGED finder

remove_balance(caller, user, amount) ==
    /\ Idle
    /\ IF ~is_admin(caller)
       THEN /\ ReplyFail("remove_balance", "forbidden")
            /\ UNCHANGED data
       ELSE LET bal == Balance(data, user)
                new == IF bal - amount > 0 THEN bal - amount ELSE 0
            IN  /\ InRange(new)
                /\ data' = [data EXCEPT !.users =
                               [SetDefault(@, user) EXCEPT ![user].balance = new]]
                /\ Save(Task("remove_balance", "", "reply", 0, user, TRUE))
                /\ UNCHANGED <<fs, tasks, views, roles, members, ranks>>
    /\ Track
    /\ UNCHANGED finder

\* ---------------------------------------------------------------- shop view
\* ProductSelect.callback
purchase(caller, name) ==
    /\ Idle
    /\ LET found == {i \in DOMAIN data.products : data.products[i].name = name}
       IN  IF caller # ALLOWED_USER_ID \/ found = {}
           THEN /\ ReplyFail("purchase", IF caller # ALLOWED_USER_ID
                                            THEN "forbidden" ELSE "notfound")
                /\ UNCHANGED data
           ELSE LET product == data.products[CHOOSE i \in found : \A j \in found : i <= j]
                    users == SetDefault(data.users, caller)
                IN  IF users[caller].balance < product.price
                    THEN /\ data' = [data EXCEPT !.users = users]
                         /\ ReplyFail("purchase", "funds")
                    ELSE /\ data' = [data EXCEPT !.users =
                                        [users EXCEPT ![caller].balance = @ - product.price]]
                         /\ Save(Task("purchase", "", "add_roles", 0, product.rank, TRUE))
                         /\ UNCHANGED <<fs, tasks, views, roles, members, ranks>>
    /\ Track
    /\ UNCHANGED finder

\* the role of the product is looked up or created and added to the buyer
PurchaseRole(t) ==
    /\ run = NoTask
    /\ t.kind = "purchase"
    /\ ranks' = ranks \cup {t.uid}
    /\ Resume(t, "reply")
    /\ UNCHANGED <<data, fs, file_lock, run, views, roles, members>>
    /\ Track
    /\ UNCHANGED finder

\* the checks an order passes before it is created
OrderAccepted(caller, color) ==
    is_admin(caller) /\ HEX_RE(color) /\ Balance(data, caller) >= price

\* the order is created without the balance check
PlaceOrder_nofunds(caller, color) ==
    /\ Idle
    /\ IF ~is_admin(caller) \/ ~HEX_RE(color)
       THEN /\ ReplyFail("order", IF ~is_admin(caller) THEN "forbidden" ELSE "color")
            /\ UNCHANGED data
       ELSE LET order == [order_id |-> Len(data.orders) + 1,
                          user_id |-> caller,
                          rank_name |-> RankName,
                          color |-> NormColor(color),
                          price |-> price,
                          status |-> PENDING]
            IN  /\ Len(data.orders) < MaxOrders
                /\ data' = [data EXCEPT !.users = Credit(@, caller, 0 - price),
                                        !.orders = Append(@, order)]
                /\ Save(Task("order", "", "admin_send", order.order_id, caller, TRUE))
                /\ UNCHANGED <<fs, tasks, views, roles, members, ranks>>
    /\ Track
    /\ UNCHANGED finder

\* the order id is the number of orders before the append
PlaceOrder_idFromZero(caller, color) ==
    /\ Idle
    /\ IF ~OrderAccepted(caller, color)
       THEN /\ ReplyFail("order", IF ~is_admin(caller) THEN "forbidden"
                                     ELSE IF ~HEX_RE(color) THEN "color"
                                     ELSE "funds")
            /\ UNCHANGED data
       ELSE LET order == [order_id |-> Len(data.orders),
                          user_id |-> caller,
                          rank_name |-> RankName,
                          color |-> NormColor(color),
                          price |-> price,
                          status |-> PENDING]
            IN  /\ Len(data.orders) < MaxOrders
                /\ data' = [data EXCEPT !.users[caller].balance = @ - price,
                                        !.orders = Append(@, order)]
                /\ Save(Task("order", "", "admin_send", Len(data.orders) + 1, caller, TRUE))
                /\ UNCHANGED <<fs, tasks, views, roles, members, ranks>>
    /\ Track
    /\ UNCHANGED finder

\* OrderButton.callback opens the modal for the admin only; OrderModal.on_submit
PlaceOrder(caller, color) ==
    /\ Idle
    /\ IF ~OrderAccepted(caller, color)
       THEN /\ ReplyFail("order", IF ~is_admin(caller) THEN "forbidden"
                                     ELSE IF ~HEX_RE(color) THEN "color"
                                     ELSE "funds")
            /\ UNCHANGED data
       ELSE LET order == [order_id |-> Len(data.orders) + 1,
                          user_id |-> caller,
                          rank_name |-> RankName,
                          color |-> NormColor(color),
                          price |-> price,
                          status |-> PENDING]
            IN  /\ Len(data.orders) < MaxOrders
                /\ data' = [data EXCEPT !.users[caller].balance = @ - price,
                                        !.orders = Append(@, order)]
                /\ Save(Task("order", "", "admin_send", order.order_id, caller, TRUE))
                /\ UNCHANGED <<fs, tasks, views, roles, members, ranks>>
    /\ Track
    /\ UNCHANGED finder

\* admin_ch.send(embed, view): the approval view of the order is now in use
AdminSend(t) ==
    /\ run = NoTask
    /\ views' = views \cup {t.oid}
    /\ Resume(t, "reply")
    /\ UNCHANGED <<data, fs, file_lock, run, roles, members, ranks>>
    /\ Track
    /\ UNCHANGED finder

\* TopupModal.on_submit up to the call of the verification service
TopupSubmit(user) ==
    /\ Idle
    /\ Spawn(Task("topup", "check_topup", "reply", 0, user, TRUE))
    /\ UNCHANGED <<data, fs, file_lock, run, views, roles, members, ranks>>
    /\ Track
    /\ UNCHANGED finder

NoResult == [status |-> "none", has_amount |-> FALSE, amount |-> 0]

\* what check_topup returns: None, or the JSON object of the service
TopupResults ==
    {NoResult}
        \cup {[status |-> s, has_amount |-> TRUE, amount |-> a] :
                 s \in {"success", "error"}, a \in Amounts}
        \cup {[status |-> "success", has_amount |-> FALSE, amount |-> 0]}

\* TopupModal.on_submit after check_topup returned
TopupResult(t, result) ==
    /\ run = NoTask
    /\ IF result = NoResult \/ result.status # "success"
       THEN /\ tasks' = (tasks (-) SetToBag({t})) (+) SetToBag(
                   {[Task("topup", "reply", "none", 0, "", FALSE) EXCEPT !.err = "rejected"]})
            /\ UNCHANGED <<data, fs, file_lock, run, views, roles, members, ranks>>
       ELSE LET amount == IF result.has_amount THEN result.amount ELSE 0
            IN  /\ Len(data.topup_logs) < MaxLogs
                /\ InRange(Balance(data, t.uid) + amount)
                /\ data' = [data EXCEPT
                               !.users = Credit(@, t.uid, amount),
                               !.topup_logs = Append(@, [user_id |-> t.uid,
                                                         amount |-> amount,
                                                         link |-> "link"])]
                /\ tasks' = tasks (-) SetToBag({t})
                /\ Save(t)
                /\ UNCHANGED <<fs, views, roles, members, ranks>>
    /\ Track
    /\ UNCHANGED finder

\* ------------------------------------------------------------ approval view
\* self.order["status"] = approved; await save_data()
SetApproved(t) ==
    /\ data' = [data EXCEPT !.orders[t.oid].status = APPROVED]
    /\ tasks' = tasks (-) SetToBag({t})
    /\ Save(t)

\* the status is set and flushed before the role is created
ApproveClick_statusFirst(oid) ==
    /\ Idle
    /\ data' = [data EXCEPT !.orders[oid].status = APPROVED]
    /\ Save(Task("approve", "", "create_role", oid, data.orders[oid].user_id, TRUE))
    /\ UNCHANGED <<fs, tasks, views, roles, members, ranks>>
    /\ Track
    /\ UNCHANGED finder

\* ApprovalView.approve up to guild.create_role
ApproveClick(oid) ==
    /\ Idle
    /\ Spawn(Task("approve", "create_role", "buyer_send", oid, data.orders[oid].user_id, TRUE))
    /\ UNCHANGED <<data, fs, file_lock, run, views, roles, members, ranks>>
    /\ Track
    /\ UNCHANGED finder

\* create_role returned; the buyer is looked up in the guild
CreateRole(t, member) ==
    /\ run = NoTask
    /\ roles' = roles \cup {t.oid}
    /\ IF member
       THEN /\ Resume(t, "add_roles")
            /\ UNCHANGED <<data, file_lock, run>>
       ELSE SetApproved(t)
    /\ UNCHANGED <<fs, views, members, ranks>>
    /\ Track
    /\ UNCHANGED finder

\* user.add_roles returned
AddRoles(t) ==
    /\ run = NoTask
    /\ t.kind = "approve"
    /\ members' = members \cup {t.oid}
    /\ SetApproved(t)
    /\ UNCHANGED <<fs, views, roles, ranks>>
    /\ Track
    /\ UNCHANGED finder

\* the order is denied without the refund
DenyClick_norefund(oid) ==
    /\ Idle
    /\ data' = [data EXCEPT !.orders[oid].status = DENIED]
    /\ Save(Task("deny", "", "buyer_send", oid, data.orders[oid].user_id, TRUE))
    /\ UNCHANGED <<fs, tasks, views, roles, members, ranks>>
    /\ Track
    /\ UNCHANGED finder

\* ApprovalView.deny up to the message to the buyer channel
DenyClick(oid) ==
    /\ Idle
    /\ LET order == data.orders[oid]
       IN  /\ InRange(Balance(data, order.user_id) + order.price)
           /\ data' = [data EXCEPT !.users = Credit(@, order.user_id, order.price),
                                   !.orders[oid].status = DENIED]
           /\ Save(Task("deny", "", "buyer_send", oid, order.user_id, TRUE))
    /\ UNCHANGED <<fs, tasks, views, roles, members, ranks>>
    /\ Track
    /\ UNCHANGED finder

\* buyer_channel.send(embed) returned
BuyerSend(t) ==
    /\ run = NoTask
    /\ Resume(t, "reply")
    /\ UNCHANGED <<data, fs, file_lock, run, views, roles, members, ranks>>
    /\ Track
    /\ UNCHANGED finder

\* interaction.response.send_message returned: the handler is done
Reply(t) ==
    /\ run = NoTask
    /\ tasks' = tasks (-) SetToBag({t})
    /\ UNCHANGED <<data, fs, file_lock, run, views, roles, members, ranks>>
    /\ Track
    /\ UNCHANGED finder

\* the call a handler awaits raises (network error, missing permission)
Fail(t) ==
    /\ run = NoTask
    /\ tasks' = tasks (-) SetToBag({t})
    /\ UNCHANGED <<data, fs, file_lock, run, views, roles, members, ranks>>
    /\ Track
    /\ UNCHANGED finder

\* the process dies and is started again: data = load_data().  A crash
\* inside write_text can leave the file being written truncated.
Crash(torn) ==
    /\ torn => (run # NoTask /\ run.pc = "save_write")
    /\ fs' = IF torn THEN [fs EXCEPT ![TmpPath] = Truncated] ELSE fs
    /\ data' = LoadData(fs')
    /\ file_lock' = FALSE
    /\ tasks' = EmptyBag
    /\ run' = NoTask
    /\ views' = {}
    /\ UNCHANGED <<roles, members, ranks>>
    /\ Track
    /\ UNCHANGED finder

Next ==
    \/ \E caller \in Users, name \in ProductNames, cost \in Prices :
          add_product(caller, name, cost)
    \/ \E caller \in Users, name \in ProductNames : remove_product(caller, name)
    \/ \E caller \in Users, user \in Targets, amount \in Amounts :
          add_balance(caller, user, amount)
    \/ \E caller \in Users, user \in Targets, amount \in Amounts :
          remove_balance(caller, user, amount)
    \/ \E caller \in Users, name \in ProductNames : purchase(caller, name)
    \/ \E t \in Suspended("add_roles") : PurchaseRole(t)
    \/ \E caller \in Users, color \in ColorInputs :
          /\ OrderAccepted(caller, color) => Len(data.orders) < ConcOrders
          /\ PlaceOrder(caller, color)
    \/ \E t \in Suspended("admin_send") : AdminSend(t)
    \/ \E user \in Users : TopupSubmit(user)
    \/ \E t \in Suspended("check_topup"), result \in TopupResults : TopupResult(t, result)
    \/ \E oid \in views : ApproveClick(oid)
    \/ \E t \in Suspended("create_role"), member \in BOOLEAN : CreateRole(t, member)
    \/ \E t \in Suspended("add_roles") : AddRoles(t)
    \/ \E oid \in views : DenyClick(oid)
    \/ \E t \in Suspended("buyer_send") : BuyerSend(t)
    \/ \E t \in Suspended("reply") : Reply(t)
    \/ \E t \in BagToSet(tasks) : t.pc # "reply" /\ Fail(t)
    \/ SaveWrite
    \/ SaveReplace
    \/ \E torn \in BOOLEAN : Crash(torn)

Spec == Init /\ [][Next]_vars

\* The order workflow alone, over two orders and the colour inputs SeqColors.
NextOrders ==
    \/ \E caller \in Users, user \in Targets, amount \in Amounts :
          add_balance(caller, user, amount)
    \/ \E caller \in Users, color \in SeqColors : PlaceOrder(caller, color)
    \/ \E t \in Suspended("admin_send") : AdminSend(t)
    \/ \E oid \in views : ApproveClick(oid)
    \/ \E t \in Suspended("create_role"), member \in BOOLEAN : CreateRole(t, member)
    \/ \E t \in Suspended("add_roles") : AddRoles(t)
    \/ \E oid \in views : DenyClick(oid)
    \/ \E t \in Suspended("buyer_send") : BuyerSend(t)
    \/ \E t \in Suspended("reply") : Reply(t)
    \/ \E t \in BagToSet(tasks) : t.pc # "reply" /\ Fail(t)
    \/ SaveWrite
    \/ SaveReplace
    \/ \E torn \in BOOLEAN : Crash(torn)

SpecOrders == Init /\ [][NextOrders]_vars

\* The submission of orders alone, before any approval: the modal over the
\* colour inputs SeqColors, and the credit that pays for the orders.
NextPlace ==
    \/ \E caller \in Users, user \in Targets, amount \in Amounts :
          add_balance(caller, user, amount)
    \/ \E caller \in Users, color \in SeqColors : PlaceOrder(caller, color)
    \/ \E t \in Suspended("admin_send") : AdminSend(t)
    \/ \E t \in Suspended("reply") : Reply(t)
    \/ \E t \in BagToSet(tasks) : t.pc # "reply" /\ Fail(t)
    \/ SaveWrite
    \/ SaveReplace
    \/ \E torn \in BOOLEAN : Crash(torn)

SpecPlace == Init /\ [][NextPlace]_vars

\* The catalog and the purchase of its products alone, over product names
\* that differ in case only.
NextCatalog ==
    \/ \E caller \in Users, name \in SeqNames, cost \in Prices :
          add_product(caller, name, cost)
    \/ \E caller \in Users, name \in SeqNames : remove_product(caller, name)
    \/ \E caller \in Users, user \in Targets, amount \in Amounts :
          add_balance(caller, user, amount)
    \/ \E caller \in Users, name \in SeqNames : purchase(caller, name)
    \/ \E t \in Suspended("add_roles") : PurchaseRole(t)
    \/ \E t \in Suspended("reply") : Reply(t)
    \/ \E t \in BagToSet(tasks) : t.pc # "reply" /\ Fail(t)
    \/ SaveWrite
    \/ SaveReplace
    \/ \E torn \in BOOLEAN : Crash(torn)

SpecCatalog == Init /\ [][NextCatalog]_vars

\* ------------------------------------------------------------------ claims
Finalized(oid) == data.orders[oid].status \in {APPROVED, DENIED}

\* the ledger that a load of the files would return
Persisted == LoadData(fs)

\* the step sets the status of order oid from the approval view
ApproveStep(oid) ==
    \E t \in BagToSet(tasks) :
        /\ t.kind = "approve"
        /\ t.oid = oid
        /\ \/ t.pc = "create_role" /\ CreateRole(t, FALSE)
           \/ t.pc = "add_roles" /\ AddRoles(t)

\* C1: once an order is Approved or Denied, a later approve or deny of that
\* order leaves the whole ledger unchanged (no second status change, no
\* second refund).
C1_FinalizedOrderUnchanged ==
    [][\A oid \in DOMAIN data.orders :
           (Finalized(oid) /\ (DenyClick(oid) \/ ApproveStep(oid))) => data' = data]_vars

\* C2: whenever no operation is in the middle of its flush, every balance is
\* an integer >= 0.
C2_BalancesNonNegative ==
    run = NoTask => \A u \in DOMAIN data.users : data.users[u].balance >= 0

\* C3: when a pending order is denied and nothing else has changed the
\* buyer's balance since the order was placed, the balance is again what it
\* was before placeOrder and the order is Denied.
C3_DenyRefundsInFull ==
    \A i \in DOMAIN data.orders :
        (placed[i].clean /\ data.orders[i].status = DENIED)
            => Balance(data, data.orders[i].user_id) = placed[i].bal

C3_Witness ==
    \E i \in DOMAIN data.orders :
        /\ placed[i].clean
        /\ data.orders[i].status = DENIED
        /\ placed[i].bal >= price
        /\ run # NoTask
        /\ run.kind = "deny"

\* C4: whenever no flush is in progress, the document in data.json holds
\* every mutation made in memory, whichever handlers made them and however
\* they interleaved: products, orders, topup log and every balance agree.
C4_FlushedHasEveryMutation ==
    run = NoTask =>
        /\ Persisted.products = data.products
        /\ Persisted.orders = data.orders
        /\ Persisted.topup_logs = data.topup_logs
        /\ \A u \in Users : Balance(Persisted, u) = Balance(data, u)

\* two handlers in flight at once, both past their flush, and the document
\* holds the topup of the one and the approval of the other
C4_Witness ==
    /\ run = NoTask
    /\ \E t \in BagToSet(tasks) : t.kind = "topup" /\ t.saved
    /\ \E t \in BagToSet(tasks) : t.kind = "approve" /\ t.saved
    /\ Persisted.topup_logs # <<>>
    /\ \E i \in DOMAIN Persisted.orders : Persisted.orders[i].status = APPROVED

\* a handler that has read the ledger and has not yet completed its flush
InSection(t) == t.kind = "approve" /\ t.pc \in {"create_role", "add_roles"}

\* C5: while a mutating operation is between its first read of the ledger
\* and the end of its own flush, no other operation updates the ledger in
\* memory or flushes.
C5_UpdateAndFlushExclusive ==
    [][\A t \in BagToSet(tasks) :
           (InSection(t) /\ CopiesIn(t, tasks') >= CopiesIn(t, tasks))
               => (data' = data /\ fs' = fs /\ run' = NoTask)]_vars

CrashStep == Crash(TRUE) \/ Crash(FALSE)

\* C6: data.json is never partially written: every step leaves it as it was
\* (the previous snapshot) or holding the complete new snapshot of data, and
\* the load after a crash returns exactly what data.json holds.
C6_SnapshotNeverTorn ==
    [][/\ fs'[DATA_FILE].kind # "truncated"
       /\ fs'[DATA_FILE] # fs[DATA_FILE] => fs'[DATA_FILE] = Text(JsonDumps(data))
       /\ CrashStep => (fs'[DATA_FILE] = fs[DATA_FILE] /\ data' = LoadData(fs))]_vars

\* the process died inside write_text while an earlier snapshot existed
C6_Witness ==
    /\ fs[TmpPath] = Truncated
    /\ fs[DATA_FILE].kind = "json"
    /\ run = NoTask
    /\ data = JsonLoads(fs[DATA_FILE].doc)
    /\ data.orders # <<>>

C8_ConfirmAfterFlush ==
    \A t \in BagToSet(tasks) :
        (t.pc \in {"buyer_send", "reply"} /\ t.ok)
            => (t.saved /\ fs[DATA_FILE].kind = "json")

C8_Witness ==
    /\ \E t \in BagToSet(tasks) : t.pc = "reply" /\ t.ok /\ t.kind = "add_balance"
    /\ \E t \in BagToSet(tasks) : t.pc = "buyer_send" /\ t.ok /\ t.kind = "deny"

\* C9: an admin credit with amount <= 0 is rejected: the ledger is unchanged
\* and no flush is started.
C9_NonPositiveCreditRejected ==
    [][\A caller \in Users, user \in Targets, amount \in Amounts :
           (amount <= 0 /\ add_balance(caller, user, amount))
               => (data' = data /\ run' = NoTask)]_vars

\* C10: every topup record has amount > 0; the log only grows, by one record
\* per step, and the step that appends a record raises that user's balance
\* by the record's amount.
C10_TopupLogPositive ==
    [][/\ \A i \in DOMAIN data'.topup_logs : data'.topup_logs[i].amount > 0
       /\ ~CrashStep =>
             /\ Len(data'.topup_logs) \in {Len(data.topup_logs), Len(data.topup_logs) + 1}
             /\ \A i \in DOMAIN data.topup_logs : data'.topup_logs[i] = data.topup_logs[i]
             /\ Len(data'.topup_logs) > Len(data.topup_logs) =>
                   LET r == data'.topup_logs[Len(data'.topup_logs)]
                   IN  Balance(data', r.user_id) = Balance(data, r.user_id) + r.amount]_vars

\* ------------------------------------------------------------------ start
\* The files the program can find when it starts: none, a ledger written by
\* an earlier run, a file cut short, and files that some other hand wrote:
\* JSON values that are no ledger, and bytes that are no text.
StartLedgers ==
    [products : {<<>>, <<[name |-> "vip", rank |-> "vip", price |-> price]>>},
     orders : {<<>>} \cup
              {<<[order_id |-> 1, user_id |-> ALLOWED_USER_ID, rank_name |-> RankName,
                  color |-> NormColor(c), price |-> price, status |-> st]>> :
                     c \in {c \in ColorInputs : HEX_RE(c)},
                     st \in {PENDING, APPROVED, DENIED}},
     users : {<<>>} \cup {(ALLOWED_USER_ID :> [balance |-> b]) : b \in {0, price}},
     topup_logs : {<<>>, <<[user_id |-> ALLOWED_USER_ID, amount |-> price,
                           link |-> "link"]>>}]

OtherDocs ==
    { [json |-> "null"], [json |-> "array"], [json |-> "number"],
      [products |-> <<>>, orders |-> <<>>],
      [users |-> {}] }

StartFiles ==
    {NoFile, Truncated, Undecodable}
        \cup {Text(JsonDumps(d)) : d \in StartLedgers}
        \cup {Text(doc) : doc \in OtherDocs}

InitLoad ==
    /\ data = Unbound
    /\ fs \in {[p \in Paths |-> IF p = DATA_FILE THEN f ELSE t] :
                  f \in StartFiles, t \in {NoFile, Truncated}}
    /\ file_lock = FALSE
    /\ tasks = EmptyBag
    /\ run = NoTask
    /\ views = {}
    /\ roles = {}
    /\ members = {}
    /\ ranks = {}
    /\ placed = <<>>
    /\ finder = FinderInit

\* data = load_data(), when the module is imported; no order is placed by it
StartUp ==
    /\ data = Unbound
    /\ data' = LoadData(fs)
    /\ UNCHANGED <<fs, file_lock, tasks, run, views, roles, members, ranks, placed, finder>>

NextLoad == StartUp

SpecLoad == InitLoad /\ [][NextLoad]_vars

\* ---------------------------------------------------------------------------
\* C11: placeOrder by a user whose balance is below the flat fee, a user
\* without an account included, fails: the handler answers with an error, no
\* order is appended, no balance changes and no flush is begun.  A step of
\* placeOrder either refuses the order or creates it; an order is created
\* only for a buyer who has the fee, and a refusal changes nothing.
OrderRefused ==
    \E t \in BagToSet(tasks') :
        /\ t.kind = "order" /\ t.pc = "reply" /\ ~t.ok /\ t.err # ""
        /\ CopiesIn(t, tasks') = CopiesIn(t, tasks) + 1

\* the step in which an order is created and its flush begun
OrderCreated ==
    run = NoTask /\ run' # NoTask /\ run'.kind = "order"

C11_PoorBuyerPlacesNoOrder ==
    [][/\ OrderCreated => Balance(data, run'.uid) >= price
       /\ OrderRefused => /\ data' = data
                          /\ fs' = fs
                          /\ run' = NoTask /\ file_lock' = file_lock
       /\ Len(data'.orders) > Len(data.orders) => OrderCreated]_vars

\* an order of the admin, who has no account, was refused for lack of funds
C11_Witness ==
    /\ \E t \in BagToSet(tasks) : t.kind = "order" /\ t.err = "funds"
    /\ ALLOWED_USER_ID \notin DOMAIN data.users

\* ---------------------------------------------------------------------------
\* C12: for every colour string that is not exactly six hexadecimal digits
\* with an optional leading "#", placeOrder fails, for the admin with the
\* invalid-colour message, and the ledger is unchanged: the orders and all
\* balances are as before the call, and nothing is flushed.
ValidColor(s) ==
    \/ Len(s) = 6 /\ \A i \in 1..6 : s[i] \in HexDigits
    \/ Len(s) = 7 /\ s[1] = "#" /\ \A i \in 2..7 : s[i] \in HexDigits

InvalidColorReply ==
    \E t \in BagToSet(tasks') :
        /\ t.kind = "order" /\ t.pc = "reply" /\ ~t.ok /\ t.err = "color"
        /\ CopiesIn(t, tasks') = CopiesIn(t, tasks) + 1

C12_InvalidColorRefused ==
    [][\A color \in SeqColors :
          ~ValidColor(color) =>
              \A caller \in Users :
                  PlaceOrder(caller, color) =>
                      /\ is_admin(caller) => InvalidColorReply
                      /\ data' = data
                      /\ fs' = fs
                      /\ run' = NoTask /\ file_lock' = file_lock]_vars

\* the admin, who has the fee, was refused an order for its colour
C12_Witness ==
    /\ \E t \in BagToSet(tasks) : t.kind = "order" /\ t.err = "color"
    /\ Balance(data, ALLOWED_USER_ID) >= price

\* ---------------------------------------------------------------------------
\* C13: for every string s of six hexadecimal digits, a successful placeOrder
\* given s and one given "#" followed by s store the same colour, "#"
\* followed by s; every stored colour is one "#" followed by six hex digits.
SixHex == {s \in SeqColors : Len(s) = 6 /\ \A i \in 1..6 : s[i] \in HexDigits}

Canonical(c) ==
    Len(c) = 7 /\ c[1] = "#" /\ \A i \in 2..7 : c[i] \in HexDigits

NewOrder == data'.orders[Len(data'.orders)]

C13_ColorStoredCanonical ==
    [][/\ \A s \in SixHex :
             /\ <<"#">> \o s \in SeqColors
             /\ \A color \in {s, <<"#">> \o s} :
                    (PlaceOrder(ALLOWED_USER_ID, color) /\ OrderCreated)
                        => NewOrder.color = <<"#">> \o s
       /\ \A i \in DOMAIN data'.orders : Canonical(data'.orders[i].color)]_vars

\* two orders were placed and they hold the same colour
C13_Witness ==
    /\ Len(data.orders) = 2
    /\ data.orders[1].color = data.orders[2].color
    /\ \E s \in SixHex : data.orders[1].color = <<"#">> \o s

\* ---------------------------------------------------------------------------
\* C14: removeProduct with no product of that name leaves the catalog
\* unchanged and performs no flush: a flush of remove_product is begun only
\* by a call that removes a product.
RemoveFlushBegun ==
    run = NoTask /\ run' # NoTask /\ run'.kind = "remove_product"

C14_RemoveFlushesOnlyOnRemoval ==
    [][RemoveFlushBegun => Len(data'.products) < Len(data.products)]_vars

\* ---------------------------------------------------------------------------
\* C15: starting from the empty catalog, no two products of the catalog ever
\* have the same name: an addProduct whose name is already present (exact,
\* case-sensitive match) fails, leaves the catalog unchanged and begins no
\* flush; an addProduct that is accepted appends a name that was absent (a
\* restart, which reloads the catalog from the file, is no addProduct).
Names(d) == {d.products[i].name : i \in DOMAIN d.products}

DuplicateReply ==
    \E t \in BagToSet(tasks') :
        /\ t.kind = "add_product" /\ t.pc = "reply" /\ t.err = "duplicate"
        /\ CopiesIn(t, tasks') = CopiesIn(t, tasks) + 1

C15_ProductNamesUnique ==
    [][/\ \A i, j \in DOMAIN data'.products :
             data'.products[i].name = data'.products[j].name => i = j
       /\ DuplicateReply => /\ data' = data
                            /\ fs' = fs
                            /\ run' = NoTask /\ file_lock' = file_lock
       /\ \A name \in SeqNames :
             (add_product(ALLOWED_USER_ID, name, price) /\ name \in Names(data))
                 => DuplicateReply
       /\ (Len(data'.products) > Len(data.products) /\ ~CrashStep)
             => /\ Len(data'.products) = Len(data.products) + 1
                /\ data'.products[Len(data'.products)].name \notin Names(data)]_vars

\* the catalog holds two names that differ in case only, and an addProduct
\* of a name already present was refused
C15_Witness ==
    /\ Names(data) = SeqNames
    /\ \E t \in BagToSet(tasks) : t.kind = "add_product" /\ t.err = "duplicate"

\* ---------------------------------------------------------------------------
\* C16: a flush followed by a load yields a ledger equal to the in-memory
\* one in products, orders, users and topup_logs: at the end of every flush
\* load_data would return the ledger the flush was given.
FlushEnds ==
    run # NoTask /\ run.pc = "save_replace" /\ run' = NoTask /\ ~CrashStep

PurchaseRefused ==
    \E t \in BagToSet(tasks') :
        /\ t.kind = "purchase" /\ t.pc = "reply" /\ t.err = "funds"
        /\ CopiesIn(t, tasks') = CopiesIn(t, tasks) + 1

C17_FailedPurchaseMutatesNothing ==
    [][PurchaseRefused => /\ data' = data
                          /\ fs' = fs
                          /\ run' = NoTask /\ file_lock' = file_lock]_vars

\* ---------------------------------------------------------------------------
\* C18: the orders sequence is append-only and the order at 0-based index i
\* has order id i + 1 (here: the order at orders[i] has id i): ids start at
\* 1, are unique and increase in creation order, and no step of the running
\* program removes an order or changes the id of one.
C18_OrdersAppendOnly ==
    [][/\ \A i \in DOMAIN data'.orders : data'.orders[i].order_id = i
       /\ ~CrashStep =>
             /\ Len(data'.orders) >= Len(data.orders)
             /\ \A i \in DOMAIN data.orders :
                    /\ data'.orders[i].order_id = data.orders[i].order_id
                    /\ data'.orders[i].user_id = data.orders[i].user_id
                    /\ data'.orders[i].color = data.orders[i].color
                    /\ data'.orders[i].price = data.orders[i].price]_vars

\* a second order was placed after the first had been decided
C18_Witness ==
    /\ Len(data.orders) = 2
    /\ data.orders[1].status # PENDING
    /\ data.orders[2].status = PENDING

\* ---------------------------------------------------------------------------
\* C19: load never fails and always returns a ledger that has the four
\* collections products, orders, users and topup_logs; when the file is
\* missing or its content is malformed (not parseable, or parseable but no
\* ledger document) it returns a fresh empty ledger.
Collections == {"products", "orders", "users", "topup_logs"}

LedgerFile(f) == f.kind = "json" /\ Collections \subseteq DOMAIN f.doc

C19_LoadAlwaysYieldsLedger ==
    data # Unbound =>
        /\ data # Raised
        /\ Collections \subseteq DOMAIN data
        /\ ~LedgerFile(fs[DATA_FILE]) => data = EmptyData

\* ------------------------------------------------------------ group finder
Workers(listed) == IF listed THEN finder.tasks ELSE finder.strays

\* the workers inside session.get, each holding a permit of the semaphore
InFetch == CopiesIn("fetch", finder.tasks) + CopiesIn("fetch", finder.strays)

\* one worker suspended in `from` runs on to the await `to`, or ends
Step(listed, from, to) ==
    LET moved == (Workers(listed) (-) SetToBag({from}))
                     (+) (IF to = "ended" THEN EmptyBag ELSE SetToBag({to}))
    IN  /\ BagIn(from, Workers(listed))
        /\ finder' = IF listed THEN [finder EXCEPT !.tasks = moved]
                                ELSE [finder EXCEPT !.strays = moved]
        /\ UNCHANGED shop

\* groupfinder_worker, started or back from asyncio.sleep(1): `while running`,
\* then fetch_json enters the semaphore, at once when a permit is free
WorkerLoop(listed) ==
    Step(listed, "sleep", IF ~finder.running THEN "ended"
                          ELSE IF InFetch < RATE_LIMIT THEN "fetch"
                          ELSE "acquire")

\* the worker waiting for the semaphore gets a permit
WorkerAcquire(listed) ==
    InFetch < RATE_LIMIT /\ Step(listed, "acquire", "fetch")

\* is_group_available returns (its errors are caught and give False)
WorkerFetch(listed, available) ==
    Step(listed, "fetch", IF available THEN "notify" ELSE "sleep")

\* notify_discord returns, or webhook.send raises and the worker ends
WorkerNotify(listed, sent) ==
    Step(listed, "notify", IF sent THEN "sleep" ELSE "ended")

\* /start
start_finder ==
    /\ IF finder.running
       THEN finder' = [finder EXCEPT !.reply = "Already running"]
       ELSE /\ BagCardinality(finder.tasks (+) finder.strays) <= MaxStrays
            /\ finder' = [finder EXCEPT
                              !.running = TRUE,
                              !.tasks = SetToBag({"sleep"}) (+) [w \in {"sleep"} |-> PoolSize - 1],
                              !.strays = finder.strays (+) finder.tasks,
                              !.reply = "Finder started"]
    /\ UNCHANGED shop

\* /stop up to its await asyncio.sleep(1.5)
stop_finder ==
    /\ finder.stopping < MaxStops
    /\ finder' = [finder EXCEPT !.running = FALSE, !.stopping = @ + 1]
    /\ UNCHANGED shop

\* /stop after the sleep: every task of the list `tasks` is cancelled
StopCancel ==
    /\ finder.stopping > 0
    /\ finder' = [finder EXCEPT !.tasks = EmptyBag, !.stopping = @ - 1,
                                !.reply = "Finder stopped"]
    /\ UNCHANGED shop

\* /status
handle_status ==
    /\ finder' = [finder EXCEPT !.reply = IF finder.running THEN "Running: True"
                                          ELSE "Running: False"]
    /\ UNCHANGED shop

NextFinder ==
    \/ start_finder
    \/ stop_finder
    \/ StopCancel
    \/ handle_status
    \/ \E listed \in BOOLEAN : WorkerLoop(listed)
    \/ \E listed \in BOOLEAN : WorkerAcquire(listed)
    \/ \E listed \in BOOLEAN, available \in BOOLEAN : WorkerFetch(listed, available)
    \/ \E listed \in BOOLEAN, sent \in BOOLEAN : WorkerNotify(listed, sent)

SpecFinder == Init /\ [][NextFinder]_vars

\* ---------------------------------------------------------------------------
\* C20: whenever the running flag is True at a quiescent point (no /stop
\* request in its wait; /start and /status do not suspend) at least one
\* worker task is alive.
Live == BagCardinality(finder.tasks) + BagCardinality(finder.strays)

C20_RunningHasLiveWorker ==
    (finder.running /\ finder.stopping = 0) => Live >= 1

\* ---------------------------------------------------------------------------
\* C21: for every interleaving of /start and /stop requests the number of
\* live worker tasks never exceeds 5, and every live worker is in the list
\* `tasks`, so that a later stop_finder cancels it.
C21_AtMostPoolSizeAllListed ==
    /\ Live <= PoolSize
    /\ finder.strays = EmptyBag

============================================================================
